---- MODULE Spec2Model ----
(***************************************************************************)
(* printerbot: the text layout engine of text_to_img.py (letters, words,   *)
(* word_table, compile_text) and the message quota of tg_serve.py / db.py. *)
(*                                                                         *)
(* Two specifications share the module:                                    *)
(*   Spec     one call of TextProcessor.compile_text on an input text      *)
(*   BotSpec  the dispatcher of tg_serve.py handling updates one by one    *)
(***************************************************************************)
EXTENDS Integers, Sequences, FiniteSets, TLC

VARIABLES
    text,           \* compile_text's argument, a sequence of characters
    pc,             \* position of the call: "letters", "words", "loop", "done", "error"
    letters_r,      \* the list returned by letters()
    words_r,        \* the list returned by words()
    table,          \* word_table's table: lines of (word, font) tuples
    line_pix_len,   \* word_table's line_pix_len
    word_i,         \* 1-based index of the word the for loop of word_table is at
    idx,            \* loop variable of the forced split loop (fragments already added)
    placed,         \* per processed word: <<first line, last line, branch taken>>
    size,           \* compile_text's size tuple
    users,          \* table "user": the rows, name -> messages_count
    messages,       \* table "message": sequence of stored rows
    bpc,            \* position of the respond handler: "idle", "print", "decrease", "save"
    upd,            \* the update being handled by respond
    printed         \* number of pages the printer has cut

lvars == <<text, pc, letters_r, words_r, table, line_pix_len, word_i, idx, placed, size>>
bvars == <<users, messages, bpc, upd, printed>>
vars == <<lvars, bvars>>

----------------------------------------------------------------------------
(* Bounds of the model *)

MaxLen == 4         \* longest input text, in characters
MaxCount == 2       \* largest messages_count a row of "user" starts with

----------------------------------------------------------------------------
(* Characters, fonts *)

NL == "\n"
SP == " "
VS16 == "fe0f"      \* the variation selector U+FE0F, b'\xef\xb8\x8f'.decode()

\* "a": a letter of the text font, "e": an emoji, "x": a character of no font
Alphabet == {"a", "e", SP, NL, "x", VS16}

PIXELS_PER_LINE == 20
FONT_SIZE == 136
IMAGE_PIX_WIDTH == PIXELS_PER_LINE * FONT_SIZE

\* A Font: its path, the code points of its cmap tables, its example string's
\* length and the pixel size img.getsize(example) of the example. The cmap and
\* the size come from the font file; here letter_width is 20396/15 and
\* 14005/10, neither a whole number of pixels: two text letters fill a line
\* (2720 pixels), three do not fit, two emoji do not fit.
Fonts ==
    << [path |-> "Disket-Mono-Bold.ttf", cmap |-> {"a", SP},
        example_len |-> 15, getsize |-> <<20396, 2000>>],
       [path |-> "AppleColorEmoji.ttf", cmap |-> {"e", SP},
        example_len |-> 10, getsize |-> <<14005, 1300>>] >>

FontIds == 1..Len(Fonts)

has_symbol(font, letter) == letter \in Fonts[font].cmap

letter_height(font) == Fonts[font].getsize[2]

\* int(len(word) * font.letter_width + 1), letter_width being
\* getsize(example)[0] / len(example); all quantities are positive
word_pix_length(word, font) ==
    (Len(word) * Fonts[font].getsize[1]) \div Fonts[font].example_len + 1

----------------------------------------------------------------------------
(* TextProcessor.letters *)

IsBlank(c) == c \in {SP, NL}

RECURSIVE lstrip(_)
lstrip(s) == IF s # <<>> /\ IsBlank(Head(s)) THEN lstrip(Tail(s)) ELSE s

RECURSIVE rstrip(_)
rstrip(s) ==
    IF s # <<>> /\ IsBlank(s[Len(s)]) THEN rstrip(SubSeq(s, 1, Len(s) - 1)) ELSE s

\* text.strip(' \n')
strip(s) == rstrip(lstrip(s))

\* a scan that keeps the last font supporting the letter instead of the first
last_font(letter, k) ==
    IF \E f \in k..Len(Fonts) : has_symbol(f, letter)
    THEN CHOOSE f \in k..Len(Fonts) :
            has_symbol(f, letter) /\ \A g \in k..Len(Fonts) : has_symbol(g, letter) => g <= f
    ELSE 0

\* for font in self.fonts: if font.has_symbol(letter): ... break; 0 is the else branch
RECURSIVE first_font(_, _)
first_font(letter, k) ==
    IF k > Len(Fonts) THEN 0
    ELSE IF has_symbol(k, letter) THEN k
    ELSE first_font(letter, k + 1)

\* the tokens one letter of the stripped text appends to the list
letter_tokens(letter) ==
    LET font == first_font(letter, 1) IN
    IF font # 0 THEN << <<letter, font>> >>
    ELSE IF letter = NL THEN << <<NL, 1>> >>
    ELSE IF letter = VS16 THEN <<>>
    ELSE <<>>

RECURSIVE letters_loop(_)
letters_loop(s) ==
    IF s = <<>> THEN <<>> ELSE letter_tokens(Head(s)) \o letters_loop(Tail(s))

letters(t) == letters_loop(strip(t))

----------------------------------------------------------------------------
(* TextProcessor.words *)

\* the closure new_word over (words, current_word)
new_word(st, font_) ==
    IF st.current_word # <<>>
    THEN [st EXCEPT !.words = Append(@, <<st.current_word, font_>>),
                    !.current_word = <<>>]
    ELSE st

\* the part of the loop body after the whitespace test
words_join(st, letter, font) ==
    IF st.current_font = font
    THEN [st EXCEPT !.current_word = Append(@, letter)]
    ELSE [new_word(st, font) EXCEPT !.current_word = <<letter>>,
                                    !.current_font = font]

\* a loop body in which a space does not close the current word
words_step_keeps_word(st, letter, font) ==
    IF letter = NL
    THEN new_word([new_word(st, st.current_font) EXCEPT !.current_word = <<letter>>], font)
    ELSE words_join(st, letter, font)

\* one iteration of "for letter, font in letters"
words_step(st, letter, font) ==
    IF letter \in {NL, SP}
    THEN LET st1 == new_word(st, st.current_font) IN
         IF letter = NL
         THEN new_word([st1 EXCEPT !.current_word = Append(@, letter)], font)
         ELSE words_join(st1, letter, font)
    ELSE words_join(st, letter, font)

RECURSIVE words_loop(_, _)
words_loop(st, ls) ==
    IF ls = <<>> THEN st
    ELSE words_loop(words_step(st, Head(ls)[1], Head(ls)[2]), Tail(ls))

\* words(letters) for a non-empty list; letters[0] raises IndexError on an empty one
words(ls) ==
    LET st0 == [words |-> <<>>, current_font |-> ls[1][2], current_word |-> <<>>]
        st == words_loop(st0, ls)
    IN new_word(st, st.current_font).words

----------------------------------------------------------------------------
(* TextProcessor.word_table *)

\* a newline that starts no line
newline_same_line(tp) == tp

\* the closure newline over (table, line_pix_len)
newline(tp) ==
    IF tp.table[Len(tp.table)] # <<>>
    THEN [table |-> Append(tp.table, <<>>), line_pix_len |-> IMAGE_PIX_WIDTH]
    ELSE tp

\* an add_word without the nonlocal update of line_pix_len
add_word_keeps_budget(tp, word_, font_, pix) ==
    [table |-> [tp.table EXCEPT ![Len(tp.table)] = Append(@, <<word_, font_>>)],
     line_pix_len |-> tp.line_pix_len]

\* the closure add_word; pix is the enclosing loop's word_pix_length
add_word(tp, word_, font_, pix) ==
    [table |-> [tp.table EXCEPT ![Len(tp.table)] = Append(@, <<word_, font_>>)],
     line_pix_len |-> tp.line_pix_len - pix]

\* (word_pix_length - 1) // self.IMAGE_PIX_WIDTH + 1
lines_count(pix) == (pix - 1) \div IMAGE_PIX_WIDTH + 1

\* a fragment length taken from the letter width: int(W // font.letter_width)
word_part_len_by_width(font) ==
    (IMAGE_PIX_WIDTH * Fonts[font].example_len) \div Fonts[font].getsize[1]

\* int(self.IMAGE_PIX_WIDTH // font.letter_height)
word_part_len(font) == IMAGE_PIX_WIDTH \div letter_height(font)

Min(a, b) == IF a < b THEN a ELSE b

\* the slice word[lo:hi] of Python, 0 <= lo <= hi
slice(word, lo, hi) == SubSeq(word, Min(lo, Len(word)) + 1, Min(hi, Len(word)))

\* word[idx * word_part_len:(idx + 1) * word_part_len]
word_part(word, font, i) ==
    slice(word, i * word_part_len(font), (i + 1) * word_part_len(font))

----------------------------------------------------------------------------
(* One call of compile_text *)

Texts == UNION {[1..n -> Alphabet] : n \in 0..MaxLen}

NoUpdate == [user |-> "", kind |-> "", text |-> "", photo |-> FALSE]

BotOff ==
    /\ users = <<>>
    /\ messages = <<>>
    /\ bpc = "idle"
    /\ upd = NoUpdate
    /\ printed = 0

\* compile_text(text) has called word_table(text), which has set up table and
\* line_pix_len and is about to evaluate self.words(self.letters(text))
Init ==
    /\ text \in Texts
    /\ pc = "letters"
    /\ letters_r = <<>>
    /\ words_r = <<>>
    /\ table = << <<>> >>
    /\ line_pix_len = IMAGE_PIX_WIDTH
    /\ word_i = 1
    /\ idx = 0
    /\ placed = <<>>
    /\ size = <<0, 0>>
    /\ BotOff

Letters ==
    /\ pc = "letters"
    /\ letters_r' = letters(text)
    /\ pc' = "words"
    /\ UNCHANGED <<text, words_r, table, line_pix_len, word_i, idx, placed, size>>

Words ==
    /\ pc = "words"
    /\ letters_r # <<>>
    /\ words_r' = words(letters_r)
    /\ pc' = "loop"
    /\ UNCHANGED <<text, letters_r, table, line_pix_len, word_i, idx, placed, size>>

\* current_font = letters[0][1] on an empty list
WordsIndexError ==
    /\ pc = "words"
    /\ letters_r = <<>>
    /\ pc' = "error"
    /\ UNCHANGED <<text, letters_r, words_r, table, line_pix_len, word_i, idx, placed, size>>

\* the for loop of word_table is at a word
AtWord == pc = "loop" /\ word_i <= Len(words_r)

\* ... and not inside the forced split loop
InLoop == AtWord /\ idx = 0

word == words_r[word_i][1]
font == words_r[word_i][2]
pix == word_pix_length(word, font)
tp == [table |-> table, line_pix_len |-> line_pix_len]

\* the closures' effect on table and line_pix_len, and the record of where
\* the word at hand went
Put(new, first, last, branch) ==
    /\ table' = new.table
    /\ line_pix_len' = new.line_pix_len
    /\ placed' = IF Len(placed) < word_i THEN Append(placed, <<first, last, branch>>)
                 ELSE [placed EXCEPT ![word_i] = <<@[1], last, branch>>]

\* if word == '\n': newline(); continue
NewlineWord ==
    /\ InLoop
    /\ word = <<NL>>
    /\ Put(newline(tp), 0, 0, "newline")
    /\ word_i' = word_i + 1
    /\ UNCHANGED <<text, pc, letters_r, words_r, idx, size>>

\* if word_pix_length <= line_pix_len: add_word(word, font)
AddWord ==
    /\ InLoop
    /\ word # <<NL>>
    /\ pix <= line_pix_len
    /\ Put(add_word(tp, word, font, pix), Len(table), Len(table), "fits")
    /\ word_i' = word_i + 1
    /\ UNCHANGED <<text, pc, letters_r, words_r, idx, size>>

\* elif word_pix_length <= self.IMAGE_PIX_WIDTH: newline(); add_word(word, font)
NewlineAddWord ==
    /\ InLoop
    /\ word # <<NL>>
    /\ ~(pix <= line_pix_len)
    /\ pix <= IMAGE_PIX_WIDTH
    /\ LET new == add_word(newline(tp), word, font, pix) IN
       Put(new, Len(new.table), Len(new.table), "wrapped")
    /\ word_i' = word_i + 1
    /\ UNCHANGED <<text, pc, letters_r, words_r, idx, size>>

\* else: one iteration of "for idx in range(lines_count)"; the last one ends
\* the iteration of the outer loop
SplitWord ==
    /\ AtWord
    /\ word # <<NL>>
    /\ idx > 0 \/ (~(pix <= line_pix_len) /\ ~(pix <= IMAGE_PIX_WIDTH))
    /\ idx < lines_count(pix)
    /\ LET new == add_word(newline(tp), word_part(word, font, idx), font, pix) IN
       Put(new, Len(new.table), Len(new.table), "split")
    /\ IF idx + 1 < lines_count(pix)
       THEN idx' = idx + 1 /\ word_i' = word_i
       ELSE idx' = 0 /\ word_i' = word_i + 1
    /\ UNCHANGED <<text, pc, letters_r, words_r, size>>

RECURSIVE max_letter_height(_)
max_letter_height(k) ==
    IF k = 0 THEN 0
    ELSE LET m == max_letter_height(k - 1) IN
         IF letter_height(k) > m THEN letter_height(k) ELSE m

\* word_table returns; compile_text computes line_heigth and size
CompileText ==
    /\ pc = "loop"
    /\ word_i > Len(words_r)
    /\ size' = <<PIXELS_PER_LINE * FONT_SIZE, max_letter_height(Len(Fonts)) * Len(table)>>
    /\ pc' = "done"
    /\ UNCHANGED <<text, letters_r, words_r, table, line_pix_len, word_i, idx, placed>>

Next ==
    \/ (Letters /\ UNCHANGED bvars)
    \/ (Words /\ UNCHANGED bvars)
    \/ (WordsIndexError /\ UNCHANGED bvars)
    \/ (NewlineWord /\ UNCHANGED bvars)
    \/ (AddWord /\ UNCHANGED bvars)
    \/ (NewlineAddWord /\ UNCHANGED bvars)
    \/ (SplitWord /\ UNCHANGED bvars)
    \/ (CompileText /\ UNCHANGED bvars)

Spec == Init /\ [][Next]_vars

----------------------------------------------------------------------------
(* The bot: db.User, db.Message, citizen_print_msg and the handlers *)

Names == {"u1", "u2"}

UpdateKinds == {"message", "edited_message"}

\* update.message.text or update.message.caption: "none" is None or '',
\* "blank" a text no letter of which gets a token, "text" any other
TextKinds == {"none", "blank", "text"}

Updates == [user : Names, kind : UpdateKinds, text : TextKinds, photo : BOOLEAN]

\* User.messages_count = sa.Column(sa.Integer, default=1)
messages_count_default == 1

\* User.create: insert a row; the primary key rejects a second row of the name
User_create(rows, name) ==
    IF name \in DOMAIN rows THEN rows
    ELSE [n \in DOMAIN rows \cup {name} |->
            IF n = name THEN messages_count_default ELSE rows[n]]

\* User.get_msg_count: the rows after the call
get_msg_count_rows(rows, name) ==
    IF name \in DOMAIN rows THEN rows ELSE User_create(rows, name)

\* User.get_msg_count: the count returned
get_msg_count(rows, name) ==
    IF name \in DOMAIN rows THEN rows[name] ELSE messages_count_default

\* User.decrease_messages_count
decrease_messages_count(rows, name) ==
    [n \in DOMAIN rows |-> IF n = name THEN rows[n] - 1 ELSE rows[n]]

\* a check that lets a count of zero through
no_attempts_left_below_zero(msgs_count) == msgs_count < 0

\* check_input: if msgs_count <= 0: ... raise UnsupportedFormat
no_attempts_left(msgs_count) == msgs_count <= 0

\* citizen_print_msg: if not text and not img: raise NothingToPrint
nothing_to_print(u) == u.text = "none" /\ ~u.photo

BotInit ==
    /\ users \in UNION {[S -> 0..MaxCount] : S \in SUBSET Names}
    /\ messages = <<>>
    /\ bpc = "idle"
    /\ upd = NoUpdate
    /\ printed = 0
    /\ text = <<>> /\ pc = "off" /\ letters_r = <<>> /\ words_r = <<>>
    /\ table = << <<>> >> /\ line_pix_len = IMAGE_PIX_WIDTH
    /\ word_i = 1 /\ idx = 0 /\ placed = <<>> /\ size = <<0, 0>>

\* /start
Start(name) ==
    /\ bpc = "idle"
    /\ users' = User_create(users, name)
    /\ UNCHANGED <<messages, bpc, upd, printed>>

\* /help
Help(name) ==
    /\ bpc = "idle"
    /\ users' = get_msg_count_rows(users, name)
    /\ UNCHANGED <<messages, bpc, upd, printed>>

\* respond: check_input raises because update.message is None
RespondNoMessage(u) ==
    /\ bpc = "idle"
    /\ u.kind # "message"
    /\ users' = get_msg_count_rows(users, u.user)
    /\ UNCHANGED <<messages, bpc, upd, printed>>

\* respond: check_input raises because the user has no messages left
RespondNoAttempts(u) ==
    /\ bpc = "idle"
    /\ u.kind = "message"
    /\ no_attempts_left(get_msg_count(users, u.user))
    /\ users' = get_msg_count_rows(users, u.user)
    /\ UNCHANGED <<messages, bpc, upd, printed>>

\* respond: check_input passes, save_and_print_msg is entered
RespondChecked(u) ==
    /\ bpc = "idle"
    /\ u.kind = "message"
    /\ ~no_attempts_left(get_msg_count(users, u.user))
    /\ users' = get_msg_count_rows(users, u.user)
    /\ upd' = u
    /\ bpc' = "print"
    /\ UNCHANGED <<messages, printed>>

\* citizen_print_msg raises NothingToPrint; respond replies and returns
PrintNothing ==
    /\ bpc = "print"
    /\ nothing_to_print(upd)
    /\ bpc' = "idle"
    /\ upd' = NoUpdate
    /\ UNCHANGED <<users, messages, printed>>

\* citizen_print_msg raises another error (compile_text on a text without
\* tokens, the printer); it leaves respond for the error handler
PrintError ==
    /\ bpc = "print"
    /\ ~nothing_to_print(upd)
    /\ bpc' = "idle"
    /\ upd' = NoUpdate
    /\ UNCHANGED <<users, messages, printed>>

\* citizen_print_msg prints the images, the signature, and cuts
PrintDone ==
    /\ bpc = "print"
    /\ ~nothing_to_print(upd)
    /\ upd.text # "blank"
    /\ printed' = printed + 1
    /\ bpc' = "decrease"
    /\ UNCHANGED <<users, messages, upd>>

\* db.User.decrease_messages_count(user_name)
Decrease ==
    /\ bpc = "decrease"
    /\ users' = decrease_messages_count(users, upd.user)
    /\ bpc' = "save"
    /\ UNCHANGED <<messages, upd, printed>>

\* db.Message.create(user_name, text, img); respond replies
Save ==
    /\ bpc = "save"
    /\ messages' = Append(messages, [user_name |-> upd.user, text |-> upd.text, img |-> upd.photo])
    /\ bpc' = "idle"
    /\ upd' = NoUpdate
    /\ UNCHANGED <<users, printed>>

BotNext ==
    \/ \E name \in Names : Start(name) /\ UNCHANGED lvars
    \/ \E name \in Names : Help(name) /\ UNCHANGED lvars
    \/ \E u \in Updates : RespondNoMessage(u) /\ UNCHANGED lvars
    \/ \E u \in Updates : RespondNoAttempts(u) /\ UNCHANGED lvars
    \/ \E u \in Updates : RespondChecked(u) /\ UNCHANGED lvars
    \/ (PrintNothing /\ UNCHANGED lvars)
    \/ (PrintError /\ UNCHANGED lvars)
    \/ (PrintDone /\ UNCHANGED lvars)
    \/ (Decrease /\ UNCHANGED lvars)
    \/ (Save /\ UNCHANGED lvars)

BotSpec == BotInit /\ [][BotNext]_vars

----------------------------------------------------------------------------
(* Vocabulary of the properties *)

W == IMAGE_PIX_WIDTH

\* word_table has returned its table
Returned == pc = "done"

\* words() has returned its list
Joined == pc \in {"loop", "done"}

\* floor(len * letter_width) + 1 and ceil(len * letter_width) + 1, letter_width
\* being the rational getsize[1] / example_len
PixFloor(w, f) == (Len(w) * Fonts[f].getsize[1]) \div Fonts[f].example_len + 1
PixCeil(w, f) ==
    (Len(w) * Fonts[f].getsize[1] + Fonts[f].example_len - 1) \div Fonts[f].example_len + 1

RECURSIVE SumFloor(_)
SumFloor(line) ==
    IF line = <<>> THEN 0 ELSE PixFloor(Head(line)[1], Head(line)[2]) + SumFloor(Tail(line))

RECURSIVE SumCeil(_)
SumCeil(line) ==
    IF line = <<>> THEN 0 ELSE PixCeil(Head(line)[1], Head(line)[2]) + SumCeil(Tail(line))

\* line l of the table holds a fragment of a force-split word
FragmentLine(l) ==
    \E i \in 1..Len(placed) :
        placed[i][3] = "split" /\ placed[i][1] <= l /\ l <= placed[i][2]

\* the fonts of the Font Set that support a character
Supporting(c) == {f \in FontIds : c \in Fonts[f].cmap}

\* the font the Segmenter resolves a character to
Resolved(c) ==
    IF Supporting(c) # {}
    THEN CHOOSE f \in Supporting(c) : \A g \in Supporting(c) : f <= g
    ELSE 1

----------------------------------------------------------------------------
(* C1: font purity. Every Word emitted by words() carries the font that     *)
(* letters() resolved for each of its characters; a word closed by a font   *)
(* change carries the font of its own characters.                           *)
C1_FontPurity ==
    Joined =>
        \A i \in 1..Len(words_r) :
            \A j \in 1..Len(words_r[i][1]) :
                Resolved(words_r[i][1][j]) = words_r[i][2]

(* C2: empty input. A text that is empty after trimming makes word_table    *)
(* return, without error, a table of exactly one empty line, and            *)
(* compile_text a canvas one line-height high.                              *)
C2_EmptyInput ==
    (\A k \in 1..Len(text) : text[k] \in {SP, NL}) =>
        /\ pc # "error"
        /\ Returned =>
            /\ table = << <<>> >>
            /\ size[2] = max_letter_height(Len(Fonts))

(* C3 as stated: on every line of the returned table without a forced-split *)
(* fragment, the sum of ceil(len * letter_width) + 1 over its words is at   *)
(* most W.                                                                  *)
C3_WidthBoundCeil ==
    Returned =>
        \A l \in 1..Len(table) : ~FragmentLine(l) => SumCeil(table[l]) <= W

(* C3 amended: on every line of the returned table without a forced-split   *)
(* fragment, the sum of int(len * letter_width + 1), that is                *)
(* floor(len * letter_width) + 1, over its words is at most W.              *)
C3_WidthBound ==
    Returned =>
        \A l \in 1..Len(table) : ~FragmentLine(l) => SumFloor(table[l]) <= W

\* a returned table with a line of two words that fills the width exactly
C3_Witness ==
    /\ Returned
    /\ \E l \in 1..Len(table) :
        ~FragmentLine(l) /\ Len(table[l]) >= 2 /\ SumFloor(table[l]) = W

C5_NewlineForcesLine ==
    /\ \A i, k, j \in 1..Len(placed) :
        (i < k /\ k < j /\ words_r[k][1] = <<NL>>
            /\ words_r[i][1] # <<NL>> /\ words_r[j][1] # <<NL>>)
        => placed[i][2] < placed[j][1]
    /\ \A l \in 1..Len(table) : \A m \in 1..Len(table[l]) :
        \A c \in 1..Len(table[l][m][1]) : table[l][m][1][c] # NL
    /\ (Returned /\ text = <<"a", NL, "a">>) =>
        table = << << <<<<"a">>, 1>> >>, << <<<<"a">>, 1>> >> >>

\* "a\na" has been laid out
C5_Witness == Returned /\ text = <<"a", NL, "a">> /\ Len(table) = 2

(* C6: the Segmenter's result. letters(text) holds, in input order, one     *)
(* token for each character of the trimmed text that a font supports,       *)
(* tagged with the first font supporting it, and one ('\n', first font) for *)
(* each newline no font supports; other unsupported characters, U+FE0F      *)
(* among them, give no token.                                               *)
C6_Segmenter ==
    pc # "letters" =>
        LET inner == {k \in 1..Len(text) : text[k] \notin {SP, NL}}
            lo == CHOOSE k \in inner : \A h \in inner : k <= h
            hi == CHOOSE k \in inner : \A h \in inner : h <= k
            trimmed == IF inner = {} THEN <<>> ELSE [k \in 1..(hi - lo + 1) |-> text[lo + k - 1]]
            Kept(c) == Supporting(c) # {} \/ c = NL
            kept == SelectSeq(trimmed, Kept)
        IN /\ Len(letters_r) = Len(kept)
           /\ \A k \in 1..Len(kept) : letters_r[k] = <<kept[k], Resolved(kept[k])>>

\* a text with a character of both fonts, an unsupported newline and a
\* dropped character has been segmented
C6_Witness ==
    /\ pc = "words"
    /\ \E k \in 1..Len(letters_r) : letters_r[k] = <<SP, 1>>
    /\ \E k \in 1..Len(letters_r) : letters_r[k] = <<NL, 1>>
    /\ \E k \in 1..Len(letters_r) : letters_r[k][2] = 2
    /\ VS16 \in {text[k] : k \in 1..Len(text)}

(* C8 as stated: every Word emitted by words() is the one-character word    *)
(* '\n' or a non-empty run without space and without newline.               *)
C8_NoWhitespaceInWords ==
    Joined =>
        \A i \in 1..Len(words_r) :
            LET w == words_r[i][1] IN
            \/ w = <<NL>>
            \/ w # <<>> /\ \A j \in 1..Len(w) : w[j] \notin {SP, NL}

(* C8 amended: every Word emitted by words() is the one-character word '\n' *)
(* or a non-empty run without newline whose characters after the first are  *)
(* not spaces: a space closes the current word and starts the next one.     *)
C8_SpaceLeadsWord ==
    Joined =>
        \A i \in 1..Len(words_r) :
            LET w == words_r[i][1] IN
            \/ w = <<NL>>
            \/ /\ w # <<>>
               /\ \A j \in 1..Len(w) : w[j] # NL
               /\ \A j \in 2..Len(w) : w[j] # SP

\* words() has emitted a word that starts with the space before it
C8_Witness ==
    /\ Joined
    /\ \E i \in 2..Len(words_r) :
        Len(words_r[i][1]) >= 2 /\ words_r[i][1][1] = SP /\ words_r[i][1][2] # SP

(* C9: the remaining budget, at the forced-split fragments the claim names. *)
(* After a fragment has been appended, line_pix_len is W minus the pixel    *)
(* length ceil(len * letter_width) + 1 of the fragment on the last line     *)
(* (the append decreased it by the fragment's own pixel length), and it     *)
(* lies in 0..W unless the fragment itself is wider than W.                 *)
C9_FragmentBudget ==
    (pc \in {"loop", "done"} /\ placed # <<>> /\ placed[Len(placed)][3] = "split") =>
        LET last == table[Len(table)] IN
        /\ line_pix_len = W - SumCeil(last)
        /\ SumCeil(last) <= W => (0 <= line_pix_len /\ line_pix_len <= W)

(* C10: no blank lines. Every line of the returned table holds a word,      *)
(* unless the table is a single empty line.                                 *)
C10_NoBlankLines ==
    Returned =>
        \/ table = << <<>> >>
        \/ \A l \in 1..Len(table) : table[l] # <<>>

----------------------------------------------------------------------------
(* The parts of C7, message quota. Printing is entered for a user only while that user's *)
(* messages_count is positive; a print that succeeds is followed by a       *)
(* decrement of that user's count by exactly one and nothing else changes a *)
(* count that exists; a print that raises leaves the counts and the stored  *)
(* messages as they were; no count is ever negative.                        *)
C7_QuotaState ==
    /\ bpc \in {"print", "decrease"} =>
        upd.user \in DOMAIN users /\ users[upd.user] > 0
    /\ \A n \in DOMAIN users : users[n] >= 0

C7_QuotaStep ==
    /\ (bpc = "print" /\ bpc' = "idle") => (users' = users /\ messages' = messages)
    /\ (bpc = "print" /\ bpc' = "decrease") => (printed' = printed + 1 /\ users' = users)
    /\ bpc = "decrease" =>
        /\ bpc' = "save"
        /\ DOMAIN users' = DOMAIN users
        /\ \A n \in DOMAIN users :
            users'[n] = IF n = upd.user THEN users[n] - 1 ELSE users[n]
    /\ bpc # "decrease" => \A n \in DOMAIN users : n \in DOMAIN users' /\ users'[n] = users[n]
    /\ printed' # printed => (bpc = "print" /\ bpc' = "decrease")
    /\ messages' # messages => bpc = "save"

(* C7: the message quota over every sequence of handled updates: the state  *)
(* part holds in every state and the step part of every step.               *)
C7_MessageQuota == []C7_QuotaState /\ [][C7_QuotaStep]_vars

\* a user's last message has been printed, counted and stored
C7_Witness ==
    /\ bpc = "idle"
    /\ printed >= 1
    /\ Len(messages) = printed
    /\ \E n \in DOMAIN users : users[n] = 0 /\ messages[Len(messages)].user_name = n

====
